---- MODULE Spec2Model ----
(***************************************************************************)
(* State-machine model of the 7-Minute Contract Review component           *)
(* (src/App.tsx): the useState cells, the two useEffect hooks with their   *)
(* dependency arrays, the event handlers and the report generator.         *)
(*                                                                         *)
(* React's commit cycle is modelled in two kinds of steps.  A handler (or  *)
(* the interval callback) applies its state updates and commits a render.  *)
(* An effect whose dependency array differs from the values it last ran    *)
(* with is then due; RunEffects flushes every due effect of that render    *)
(* (cleanups first, then bodies in declaration order), applies the state   *)
(* updates the bodies queued as one batch and commits the next render.     *)
(* Pending effects are flushed before the next event is handled.  A setter *)
(* called with the value already held changes no dependency, so no effect  *)
(* becomes due.                                                            *)
(***************************************************************************)
EXTENDS Integers, Sequences, FiniteSets, TLC

VARIABLES
    activeStep,      \* useState<number>(0)
    isTimerRunning,  \* useState<boolean>(false)
    timeLeft,        \* useState<number>(60)
    findings,        \* useState<FindingsMap>({})
    reviewComplete,  \* useState<boolean>(false)
    contractName,    \* useState<string>('')
    mobileMenuOpen,  \* useState<boolean>(false)
    timerDeps,       \* [isTimerRunning, timeLeft] the timer effect last ran with
    stepDeps,        \* activeStep the step-change effect last ran with
    interval,        \* the `interval` local of the last timer-effect run (TRUE: a handle)
    scheduled,       \* number of setInterval handles not yet cleared
    lastEvent,       \* history: the last handler or callback that ran
    ticks            \* history: ticks since Start was toggled on a full timer, -1 otherwise

vars == <<activeStep, isTimerRunning, timeLeft, findings, reviewComplete,
          contractName, mobileMenuOpen, timerDeps, stepDeps, interval,
          scheduled, lastEvent, ticks>>

-----------------------------------------------------------------------------
(* Bounds of the model *)

\* longest checked list a toggle may produce
MaxChecked == 2

-----------------------------------------------------------------------------
(* Static data *)

steps ==
    << [id |-> 1, title |-> "Control Clauses", duration |-> 60,
        checklist |-> << "Term: Is the duration clear?",
                         "Termination: Can we get out? At what cost?",
                         "Liability: Is it capped? Are we exposed?" >>],
       [id |-> 2, title |-> "Money, Obligations & Timelines", duration |-> 120,
        checklist |-> << "Payment Amount: Is the math exact?",
                         "Payment Schedule: When is it due?",
                         "Penalties: Are there late fees or interest?",
                         "Performance Obligations: What MUST be done?",
                         "Deadlines: Are dates hard or soft?" >>],
       [id |-> 3, title |-> "Definitions", duration |-> 60,
        checklist |-> << "Check for 'Shall' vs 'May' misuse",
                         "Scan for ambiguous words (e.g., 'reasonable')",
                         "Find hidden obligations buried in definitions" >>],
       [id |-> 4, title |-> "Indemnity + Confidentiality", duration |-> 60,
        checklist |-> << "Indemnity: Who indemnifies whom?",
                         "Indemnity Scope: For what exactly?",
                         "Confidentiality: Is the scope reasonable?" >>],
       [id |-> 5, title |-> "Dispute Resolution", duration |-> 60,
        checklist |-> << "Jurisdiction: Is it favorable/neutral?",
                         "Seat: Is the physical location practical?",
                         "Arbitration: Is it mandatory? Who pays?",
                         "Delays: Are timeline mechanisms clear?" >>],
       [id |-> 6, title |-> "Final Sanity Check", duration |-> 60,
        checklist |-> << "Conflicting clauses",
                         "Missing annexures/exhibits",
                         "Internal inconsistencies",
                         "Signature blocks correct" >>] >>

\* steps[index] with the source's 0-based index
Step(index) == steps[index + 1]

StepIndices == 0 .. (Len(steps) - 1)

\* texts a user types, as character sequences: empty, a blank, a letter
Texts == { << >>, << " " >>, << "a" >> }

\* steps whose findings are edited in the findings workflow
EditedSteps == {0, 1}

Names == {"", "ACME MSA"}


-----------------------------------------------------------------------------
(* FindingsMap helpers *)

\* prev[step]?.checked || []
CheckedOf(f, step) == IF step \in DOMAIN f THEN f[step].checked ELSE << >>

\* prev[step]?.notes || ''
NotesOf(f, step) == IF step \in DOMAIN f THEN f[step].notes ELSE << >>

\* an update that forgets to spread prev
SpreadWithDropped(prev, step, data) == [k \in {step} |-> data]

\* { ...prev, [step]: data }
SpreadWith(prev, step, data) ==
    [k \in (DOMAIN prev) \cup {step} |-> IF k = step THEN data ELSE prev[k]]

\* currentList.includes(item)
Includes(list, item) == \E i \in 1 .. Len(list) : list[i] = item

\* currentList.filter(i => i !== item)
Without(list, item) == SelectSeq(list, LAMBDA i : i # item)

\* a toggle that appends without testing for presence
NewListAlwaysAppends(currentList, item) == Append(currentList, item)

\* newList of toggleChecklist
NewList(currentList, item) ==
    IF Includes(currentList, item)
    THEN Without(currentList, item)
    ELSE Append(currentList, item)

\* the updater passed to setFindings by updateFinding
UpdatedFindings(prev, step, text) ==
    SpreadWith(prev, step, [checked |-> CheckedOf(prev, step), notes |-> text])

\* a toggle that drops the record once nothing is checked and the notes are empty
ToggledFindingsPruned(prev, step, item) ==
    LET data == [notes |-> NotesOf(prev, step),
                 checked |-> NewList(CheckedOf(prev, step), item)]
    IN  IF data.checked = << >> /\ data.notes = << >>
        THEN [k \in (DOMAIN prev) \ {step} |-> prev[k]]
        ELSE SpreadWith(prev, step, data)

\* the updater passed to setFindings by toggleChecklist
ToggledFindings(prev, step, item) ==
    SpreadWith(prev, step, [notes |-> NotesOf(prev, step),
                            checked |-> NewList(CheckedOf(prev, step), item)])

-----------------------------------------------------------------------------
(* Indicator and report *)

IsWhitespace(c) == c = " "

\* String.prototype.trim on a character sequence
RECURSIVE TrimStart(_)
TrimStart(text) ==
    IF text # << >> /\ IsWhitespace(Head(text)) THEN TrimStart(Tail(text)) ELSE text

RECURSIVE TrimEnd(_)
TrimEnd(text) ==
    IF text # << >> /\ IsWhitespace(text[Len(text)])
    THEN TrimEnd(SubSeq(text, 1, Len(text) - 1))
    ELSE text

Trim(text) == TrimEnd(TrimStart(text))

\* sidebar dot: findings[idx]?.checked?.length || findings[idx]?.notes
HasFindingsIndicator(idx) ==
    /\ idx \in DOMAIN findings
    /\ (Len(findings[idx].checked) # 0 \/ findings[idx].notes # << >>)

\* a hasIssues that only tests for the presence of a record
HasIssuesIfRecorded(index) == index \in DOMAIN findings

\* generateReport: hasIssues of one step
HasIssues(index) ==
    /\ index \in DOMAIN findings
    /\ \/ Len(findings[index].checked) > 0
       \/ (findings[index].notes # << >> /\ Trim(findings[index].notes) # << >>)

\* title.toUpperCase() of the six authored titles
ToUpperCase(title) ==
    CASE title = "Control Clauses" -> "CONTROL CLAUSES"
      [] title = "Money, Obligations & Timelines" -> "MONEY, OBLIGATIONS & TIMELINES"
      [] title = "Definitions" -> "DEFINITIONS"
      [] title = "Indemnity + Confidentiality" -> "INDEMNITY + CONFIDENTIALITY"
      [] title = "Dispute Resolution" -> "DISPUTE RESOLUTION"
      [] title = "Final Sanity Check" -> "FINAL SANITY CHECK"

\* one line of the report: the literal text that opens it and its argument
Line(kind, arg) == [kind |-> kind, arg |-> arg]

\* stepData.checked.forEach(item => report += ` - [x] ${item}\n`)
FlagLines(checked) == [i \in 1 .. Len(checked) |-> Line(" - [x] ", checked[i])]

\* the lines generateReport appends for steps[index]
StepBlock(index) ==
    LET stepData == findings[index]
    IN  << Line("[index + 1] TITLE", <<index + 1, ToUpperCase(Step(index).title)>>) >>
        \o (IF HasIssues(index)
            THEN (IF Len(stepData.checked) > 0
                  THEN << Line("Flags Identified:", "") >> \o FlagLines(stepData.checked)
                  ELSE << >>)
                 \o (IF stepData.notes # << >>
                     THEN << Line("Notes: ", stepData.notes) >>
                     ELSE << >>)
            ELSE << Line("Status: No specific issues flagged.", "") >>)
        \o << Line("", ""), Line("-----------------------------------", ""), Line("", "") >>

RECURSIVE BlocksFrom(_)
BlocksFrom(index) ==
    IF index >= Len(steps) THEN << >> ELSE StepBlock(index) \o BlocksFrom(index + 1)

generateReport ==
    << Line("7-MINUTE CONTRACT REVIEW REPORT", ""),
       Line("Contract: ", IF contractName # "" THEN contractName ELSE "Untitled"),
       Line("Date: ", "toLocaleDateString"),
       Line("", "") >>
    \o BlocksFrom(0)

-----------------------------------------------------------------------------
(* Effects *)

\* a timer effect that tests only isTimerRunning before creating the interval
TimerEffectBranchNoZeroTest(running, left) ==
    IF running THEN "setInterval"
    ELSE IF left = 0 THEN "stop"
    ELSE "none"

\* a timer effect that creates the interval whether or not the timer runs
TimerEffectBranchAlwaysArms(running, left) ==
    IF left > 0 THEN "setInterval"
    ELSE IF left = 0 THEN "stop"
    ELSE "none"

\* a timer effect without the else-if that stops the timer at zero
TimerEffectBranchNeverStops(running, left) ==
    IF running /\ left > 0 THEN "setInterval" ELSE "none"

\* timer effect body: which branch of its if / else-if runs
TimerEffectBranch(running, left) ==
    IF running /\ left > 0 THEN "setInterval"
    ELSE IF left = 0 THEN "stop"
    ELSE "none"

\* a timer effect that returns no cleanup
CleanupSkipped(handle) == FALSE

\* timer effect cleanup: if (interval) clearInterval(interval)
CleanupClears(handle) == handle

\* a step-change effect that leaves timeLeft as it is
StepEffectTimeLeftKept(step) == timeLeft

\* step-change effect: the value passed to setTimeLeft
StepEffectTimeLeft(step) == Step(step).duration

\* step-change effect: the value passed to setIsTimerRunning
StepEffectRunning(prev) == FALSE

\* step-change effect: the value passed to setMobileMenuOpen
StepEffectMenu(prev) == FALSE

TimerEffectDue == timerDeps # <<isTimerRunning, timeLeft>>

StepEffectDue == stepDeps # activeStep

\* no effect is pending: the committed render is the one the user acts on
Settled == ~TimerEffectDue /\ ~StepEffectDue

RunEffects ==
    LET cleared == TimerEffectDue /\ CleanupClears(interval)
        branch  == TimerEffectBranch(isTimerRunning, timeLeft)
        arms    == TimerEffectDue /\ branch = "setInterval"
        stops   == TimerEffectDue /\ branch = "stop"
    IN  /\ TimerEffectDue \/ StepEffectDue
        /\ interval' = IF TimerEffectDue THEN arms ELSE interval
        /\ scheduled' = scheduled - (IF cleared THEN 1 ELSE 0) + (IF arms THEN 1 ELSE 0)
        /\ timerDeps' = IF TimerEffectDue THEN <<isTimerRunning, timeLeft>> ELSE timerDeps
        /\ stepDeps' = activeStep
        /\ timeLeft' = IF StepEffectDue THEN StepEffectTimeLeft(activeStep) ELSE timeLeft
        /\ isTimerRunning' =
              LET stopped == IF stops THEN FALSE ELSE isTimerRunning
              IN  IF StepEffectDue THEN StepEffectRunning(stopped) ELSE stopped
        /\ mobileMenuOpen' =
              IF StepEffectDue THEN StepEffectMenu(mobileMenuOpen) ELSE mobileMenuOpen
        /\ UNCHANGED <<activeStep, findings, reviewComplete, contractName, lastEvent, ticks>>

\* an interval callback that counts two seconds per tick
TickedTimeTwice(prevTime) == prevTime - 2

\* an interval callback that leaves the time as it is
TickedTimeStuck(prevTime) == prevTime

\* the setInterval callback: setTimeLeft(prevTime => prevTime - 1)
TickedTime(prevTime) == prevTime - 1

Tick ==
    /\ Settled
    /\ scheduled > 0
    /\ timeLeft' = TickedTime(timeLeft)
    /\ lastEvent' = "tick"
    /\ ticks' = IF ticks >= 0 THEN ticks + 1 ELSE -1
    /\ UNCHANGED <<activeStep, isTimerRunning, findings, reviewComplete, contractName,
                   mobileMenuOpen, timerDeps, stepDeps, interval, scheduled>>

-----------------------------------------------------------------------------
(* Handlers.  A handler runs on a committed render whose effects have been *)
(* flushed; the controls of the step view exist while reviewComplete is    *)
(* false, those of the summary view while it is true.                      *)

StepView == Settled /\ ~reviewComplete

SummaryView == Settled /\ reviewComplete

EffectState == <<timerDeps, stepDeps, interval, scheduled>>

\* setIsTimerRunning(prev => !prev)
toggleTimer ==
    /\ StepView
    /\ isTimerRunning' = ~isTimerRunning
    /\ lastEvent' = "toggleTimer"
    /\ ticks' = IF ~isTimerRunning /\ timeLeft = Step(activeStep).duration THEN 0 ELSE -1
    /\ UNCHANGED <<activeStep, timeLeft, findings, reviewComplete, contractName,
                   mobileMenuOpen, EffectState>>

\* a reset that always restores the first step's duration
ResetTimeLeftFirstStep(step) == Step(0).duration

\* resetTimer: the value passed to setTimeLeft
ResetTimeLeft(step) == Step(step).duration

resetTimer ==
    /\ StepView
    /\ isTimerRunning' = FALSE
    /\ timeLeft' = ResetTimeLeft(activeStep)
    /\ lastEvent' = "resetTimer"
    /\ ticks' = -1
    /\ UNCHANGED <<activeStep, findings, reviewComplete, contractName,
                   mobileMenuOpen, EffectState>>

\* a handleNext that finishes the review one step early
NextAdvancesEarlyFinish(step) == step < Len(steps) - 2

\* handleNext: the condition of its if
NextAdvances(step) == step < Len(steps) - 1

\* a Next that pauses the timer when it finishes the review
handleNextFinishStopsTimer ==
    /\ StepView
    /\ IF NextAdvances(activeStep)
       THEN activeStep' = activeStep + 1 /\ UNCHANGED <<reviewComplete, isTimerRunning>>
       ELSE reviewComplete' = TRUE /\ isTimerRunning' = FALSE /\ UNCHANGED activeStep
    /\ lastEvent' = "handleNext"
    /\ ticks' = -1
    /\ UNCHANGED <<timeLeft, findings, contractName, mobileMenuOpen, EffectState>>

handleNext ==
    /\ StepView
    /\ IF NextAdvances(activeStep)
       THEN activeStep' = activeStep + 1 /\ UNCHANGED reviewComplete
       ELSE reviewComplete' = TRUE /\ UNCHANGED activeStep
    /\ lastEvent' = "handleNext"
    /\ ticks' = -1
    /\ UNCHANGED <<isTimerRunning, timeLeft, findings, contractName,
                   mobileMenuOpen, EffectState>>

\* the Back button is disabled on the first step; the handler tests it again
handleBack ==
    /\ StepView
    /\ activeStep > 0
    /\ activeStep' = activeStep - 1
    /\ lastEvent' = "handleBack"
    /\ ticks' = -1
    /\ UNCHANGED <<isTimerRunning, timeLeft, findings, reviewComplete, contractName,
                   mobileMenuOpen, EffectState>>

\* a sidebar click that also pauses the timer in the handler
SidebarJumpStopsTimer(idx) ==
    /\ StepView
    /\ activeStep' = idx
    /\ isTimerRunning' = FALSE
    /\ lastEvent' = "jump"
    /\ ticks' = -1
    /\ UNCHANGED <<timeLeft, findings, reviewComplete, contractName,
                   mobileMenuOpen, EffectState>>

\* a step list that is also offered on the summary view
SidebarJumpInSummary(idx) ==
    /\ Settled
    /\ activeStep' = idx
    /\ lastEvent' = "jump"
    /\ ticks' = -1
    /\ UNCHANGED <<isTimerRunning, timeLeft, findings, reviewComplete, contractName,
                   mobileMenuOpen, EffectState>>

\* sidebar step button: onClick={() => setActiveStep(idx)}
SidebarJump(idx) ==
    /\ StepView
    /\ activeStep' = idx
    /\ lastEvent' = "jump"
    /\ ticks' = -1
    /\ UNCHANGED <<isTimerRunning, timeLeft, findings, reviewComplete, contractName,
                   mobileMenuOpen, EffectState>>

\* mobile menu step button, rendered while mobileMenuOpen
MobileMenuJump(idx) ==
    /\ StepView
    /\ mobileMenuOpen
    /\ activeStep' = idx
    /\ lastEvent' = "jump"
    /\ ticks' = -1
    /\ UNCHANGED <<isTimerRunning, timeLeft, findings, reviewComplete, contractName,
                   mobileMenuOpen, EffectState>>

\* header menu button: setMobileMenuOpen(!mobileMenuOpen)
ToggleMobileMenu ==
    /\ StepView
    /\ mobileMenuOpen' = ~mobileMenuOpen
    /\ lastEvent' = "input"
    /\ ticks' = -1
    /\ UNCHANGED <<activeStep, isTimerRunning, timeLeft, findings, reviewComplete,
                   contractName, EffectState>>

\* contract name inputs: setContractName(e.target.value)
SetContractName(name) ==
    /\ StepView
    /\ contractName' = name
    /\ lastEvent' = "input"
    /\ ticks' = -1
    /\ UNCHANGED <<activeStep, isTimerRunning, timeLeft, findings, reviewComplete,
                   mobileMenuOpen, EffectState>>

\* the records a bounded run may hold
WithinBounds(f) == \A k \in DOMAIN f : Len(f[k].checked) <= MaxChecked

updateFinding(text) ==
    /\ StepView
    /\ findings' = UpdatedFindings(findings, activeStep, text)
    /\ WithinBounds(findings')
    /\ lastEvent' = "input"
    /\ ticks' = -1
    /\ UNCHANGED <<activeStep, isTimerRunning, timeLeft, reviewComplete, contractName,
                   mobileMenuOpen, EffectState>>

toggleChecklist(item) ==
    /\ StepView
    /\ findings' = ToggledFindings(findings, activeStep, item)
    /\ WithinBounds(findings')
    /\ lastEvent' = "input"
    /\ ticks' = -1
    /\ UNCHANGED <<activeStep, isTimerRunning, timeLeft, reviewComplete, contractName,
                   mobileMenuOpen, EffectState>>

\* a Return to Review that also rewinds the timer
ReturnToReviewRewinds ==
    /\ SummaryView
    /\ reviewComplete' = FALSE
    /\ timeLeft' = Step(activeStep).duration
    /\ lastEvent' = "returnToReview"
    /\ ticks' = -1
    /\ UNCHANGED <<activeStep, isTimerRunning, findings, contractName,
                   mobileMenuOpen, EffectState>>

\* summary header button: setReviewComplete(false)
ReturnToReview ==
    /\ SummaryView
    /\ reviewComplete' = FALSE
    /\ lastEvent' = "returnToReview"
    /\ ticks' = -1
    /\ UNCHANGED <<activeStep, isTimerRunning, timeLeft, findings, contractName,
                   mobileMenuOpen, EffectState>>

\* a Start New Review that keeps the findings
NewReviewFindingsKept == findings

\* Start New Review: the value passed to setFindings
NewReviewFindings == << >>

\* a Start New Review that runs the setters whatever window.confirm answered
StartNewReviewUnconfirmed(confirmed) ==
    /\ SummaryView
    /\ reviewComplete' = FALSE
    /\ activeStep' = 0
    /\ findings' = NewReviewFindings
    /\ contractName' = ""
    /\ isTimerRunning' = FALSE
    /\ lastEvent' = IF confirmed THEN "startNewReview" ELSE "declineNewReview"
    /\ ticks' = -1
    /\ UNCHANGED <<timeLeft, mobileMenuOpen, EffectState>>

\* Start New Review: the five setters run if window.confirm answered yes
StartNewReview(confirmed) ==
    /\ SummaryView
    /\ IF confirmed
       THEN /\ reviewComplete' = FALSE
            /\ activeStep' = 0
            /\ findings' = NewReviewFindings
            /\ contractName' = ""
            /\ isTimerRunning' = FALSE
            /\ lastEvent' = "startNewReview"
       ELSE /\ UNCHANGED <<reviewComplete, activeStep, findings, contractName,
                           isTimerRunning>>
            /\ lastEvent' = "declineNewReview"
    /\ ticks' = -1
    /\ UNCHANGED <<timeLeft, mobileMenuOpen, EffectState>>

-----------------------------------------------------------------------------
(* Specifications *)

\* the state after the mount render and its effects: the timer effect finds
\* nothing to do and the step-change effect sets the values already held
Init ==
    /\ activeStep = 0
    /\ isTimerRunning = FALSE
    /\ timeLeft = 60
    /\ findings = << >>
    /\ reviewComplete = FALSE
    /\ contractName = ""
    /\ mobileMenuOpen = FALSE
    /\ timerDeps = <<FALSE, 60>>
    /\ stepDeps = 0
    /\ interval = FALSE
    /\ scheduled = 0
    /\ lastEvent = "mount"
    /\ ticks = -1

\* findings edits of the findings workflow
EditNotes == \E text \in Texts : activeStep \in EditedSteps /\ updateFinding(text)

EditChecklist ==
    \E i \in 1 .. Len(Step(activeStep).checklist) :
        activeStep \in EditedSteps /\ toggleChecklist(Step(activeStep).checklist[i])

\* findings edits while every second of the countdown is modelled: the notes
\* and the first checklist item of the first step
TimedEditNotes == \E text \in Texts : activeStep = 0 /\ updateFinding(text)

TimedEditChecklist == activeStep = 0 /\ toggleChecklist(Step(activeStep).checklist[1])

Next ==
    \/ RunEffects
    \/ Tick
    \/ toggleTimer
    \/ resetTimer
    \/ handleNext
    \/ handleBack
    \/ \E idx \in StepIndices : SidebarJump(idx)
    \/ \E idx \in StepIndices : MobileMenuJump(idx)
    \/ ToggleMobileMenu
    \/ \E name \in Names : SetContractName(name)
    \/ TimedEditNotes
    \/ TimedEditChecklist
    \/ ReturnToReview
    \/ \E confirmed \in BOOLEAN : StartNewReview(confirmed)

Spec == Init /\ [][Next]_vars

\* the findings workflow: the countdown is left stopped and the steps are
\* reached with Next and Back
NextFindings ==
    \/ RunEffects
    \/ handleNext
    \/ handleBack
    \/ EditNotes
    \/ EditChecklist
    \/ ReturnToReview
    \/ \E confirmed \in BOOLEAN : StartNewReview(confirmed)

SpecFindings == Init /\ [][NextFindings]_vars

\* the countdown left to run: the user picks a step with Next and Back,
\* presses Start once and from then on presses neither Start/Pause nor Reset,
\* changes step no more and starts no new review; typing the contract name,
\* opening the menu, finishing the review on the last step and returning
\* from the summary remain possible
UntouchedTimer == ~isTimerRunning /\ timeLeft = Step(activeStep).duration

CountdownStart == UntouchedTimer /\ toggleTimer

CountdownNext == (UntouchedTimer \/ ~NextAdvances(activeStep)) /\ handleNext

CountdownBack == UntouchedTimer /\ handleBack

NextCountdown ==
    \/ RunEffects
    \/ Tick
    \/ CountdownStart
    \/ CountdownNext
    \/ CountdownBack
    \/ ToggleMobileMenu
    \/ \E name \in Names : SetContractName(name)
    \/ ReturnToReview

\* the browser fires the interval every second while it is scheduled, and
\* React flushes the effects of every committed render
SpecCountdown ==
    /\ Init
    /\ [][NextCountdown]_vars
    /\ WF_vars(Tick)
    /\ WF_vars(RunEffects)

-----------------------------------------------------------------------------
(* Properties of the timer, the navigation and the session *)

\* a step taken by the handler or callback named e (RunEffects keeps
\* lastEvent and always changes one of the dependency records)
HandlerStep(e) == lastEvent' = e /\ timerDeps' = timerDeps /\ stepDeps' = stepDeps

\* C1: a step change resets the timer.  Whenever activeStep changes (Next,
\* Back, a sidebar or mobile-menu jump) the step-change effect becomes due,
\* and the flush that runs it leaves timeLeft at the new step's duration and
\* the timer stopped, whatever timeLeft and isTimerRunning were before.
StepChangeResetsTimer ==
    [][ /\ (activeStep' # activeStep => stepDeps' # activeStep')
        /\ (stepDeps' # stepDeps =>
              /\ stepDeps' = activeStep'
              /\ timeLeft' = Step(activeStep').duration
              /\ isTimerRunning' = FALSE) ]_vars

\* a jump to another step was made while the timer ran part-way down; the
\* step-change effect is about to run
StepChangePending ==
    /\ StepEffectDue
    /\ lastEvent = "jump"
    /\ isTimerRunning
    /\ timeLeft < Step(stepDeps).duration
    /\ timeLeft # Step(activeStep).duration

\* C2: the timer stops itself at zero.  timeLeft is never negative, and once
\* the effects of the render showing 0 have run the timer is stopped and no
\* interval is left to tick.
TimerStopsAtZero ==
    /\ timeLeft >= 0
    /\ (Settled /\ timeLeft = 0 => ~isTimerRunning /\ scheduled = 0)

\* the countdown ran to zero by ticks and was stopped by the timer effect
RanDownToZero == Settled /\ timeLeft = 0 /\ ~isTimerRunning /\ lastEvent = "tick"

\* C3: timer decrement correctness.  After Start is toggled on a stopped,
\* full timer of duration d and k ticks follow with no other action,
\* timeLeft = d - k, and the timer is still running while k < d.
TickDecrementsByOne ==
    ticks >= 0 =>
        /\ timeLeft = Step(activeStep).duration - ticks
        /\ (ticks < Step(activeStep).duration => isTimerRunning)

\* fifteen ticks into a fresh run of the 60-second first step
FifteenTicksIn ==
    /\ Settled
    /\ activeStep = 0
    /\ ticks = 15
    /\ timeLeft = 45
    /\ isTimerRunning

\* C4: the finish-review transition.  Next on the last step (index 5) sets
\* reviewComplete and keeps activeStep = 5; Next on an earlier step adds
\* exactly 1 to activeStep and leaves reviewComplete false.
NextFinishesOnLastStep ==
    [][ HandlerStep("handleNext") =>
          IF activeStep = 5
          THEN reviewComplete' = TRUE /\ activeStep' = 5
          ELSE activeStep' = activeStep + 1 /\ reviewComplete' = FALSE ]_vars

\* Next was pressed on the last step
ReviewFinished == reviewComplete /\ activeStep = 5 /\ lastEvent = "handleNext"

\* C5: new-review reset completeness.  After a confirmed Start New Review,
\* once the effects have been flushed, the session is back at step 0 with no
\* findings, no contract name, the step view, and the timer stopped at 60.
NewReviewResetsSession ==
    (lastEvent = "startNewReview" /\ Settled) =>
        /\ activeStep = 0
        /\ findings = << >>
        /\ contractName = ""
        /\ reviewComplete = FALSE
        /\ isTimerRunning = FALSE
        /\ timeLeft = 60

\* a confirmed Start New Review whose effects have been flushed
NewReviewSettled == lastEvent = "startNewReview" /\ Settled /\ scheduled = 0

-----------------------------------------------------------------------------
(* Properties of the findings and the report *)

\* the lines of a report block of the given kind
LinesOfKind(block, kind) == SelectSeq(block, LAMBDA l : l.kind = kind)

\* the members of a list
Members(list) == { list[i] : i \in 1 .. Len(list) }

\* position of an item in the authored checklist of a step
ChecklistPosition(index, item) ==
    CHOOSE i \in 1 .. Len(Step(index).checklist) : Step(index).checklist[i] = item

TwiceToggled(item) ==
    ToggledFindings(ToggledFindings(findings, activeStep, item), activeStep, item)

\* C6 as stated: toggling any item of the active step twice in a row leaves
\* the step's checked list exactly as it was, wherever the item stood, and
\* the notes untouched.
DoubleToggleKeepsList ==
    \A item \in Members(Step(activeStep).checklist) :
        /\ CheckedOf(TwiceToggled(item), activeStep) = CheckedOf(findings, activeStep)
        /\ NotesOf(TwiceToggled(item), activeStep) = NotesOf(findings, activeStep)

\* C6 as amended: toggling any item of the active step twice in a row leaves
\* the same items checked, each once, and the notes untouched; the list is
\* the very same when the item was absent or last, and otherwise the item
\* has moved to the end of the list.
DoubleToggleKeepsMembers ==
    \A item \in Members(Step(activeStep).checklist) :
        LET before == CheckedOf(findings, activeStep)
            after  == CheckedOf(TwiceToggled(item), activeStep)
        IN  /\ Members(after) = Members(before)
            /\ Len(after) = Len(before)
            /\ NotesOf(TwiceToggled(item), activeStep) = NotesOf(findings, activeStep)
            /\ after = IF Includes(before, item)
                       THEN Append(Without(before, item), item)
                       ELSE before

\* two items are checked on the active step, so one of them is present and
\* not last
TwoItemsChecked ==
    /\ StepView
    /\ lastEvent = "input"
    /\ Len(CheckedOf(findings, activeStep)) = 2
    /\ NotesOf(findings, activeStep) # << >>

\* C7: findings isolation.  An edit of the notes or the checklist of the
\* active step leaves every other step's record, or its absence, as it was.
EditsAreIsolated ==
    [][ (HandlerStep("input") /\ findings' # findings) =>
          \A B \in StepIndices \ {activeStep} :
              /\ (B \in DOMAIN findings') = (B \in DOMAIN findings)
              /\ (B \in DOMAIN findings => findings'[B] = findings[B]) ]_vars

\* the active step was just edited while another step holds flags and notes
EditedBesideAnotherRecord ==
    /\ lastEvent = "input"
    /\ activeStep \in DOMAIN findings
    /\ \E B \in (DOMAIN findings) \ {activeStep} :
          findings[B].checked # << >> /\ findings[B].notes # << >>

\* C8: the flagged-step indicator.  A step shows the "Has findings" dot if
\* and only if its checked list is non-empty or its notes are non-empty
\* after trimming.
IndicatorTrimsNotes ==
    \A idx \in StepIndices :
        HasFindingsIndicator(idx) <=>
            (CheckedOf(findings, idx) # << >> \/ Trim(NotesOf(findings, idx)) # << >>)

\* the checked items of the report's flag lines for a step
ReportedFlags(index) ==
    LET flags == LinesOfKind(StepBlock(index), " - [x] ")
    IN  [i \in 1 .. Len(flags) |-> flags[i].arg]

\* C9: report flag order.  For every step the flag lines of the report list
\* the checked items in the order of the step's authored checklist.
ReportFlagsInChecklistOrder ==
    \A index \in StepIndices :
        \A i, j \in 1 .. Len(ReportedFlags(index)) :
            i < j => ChecklistPosition(index, ReportedFlags(index)[i])
                       < ChecklistPosition(index, ReportedFlags(index)[j])

\* C10: the "no issues" case of the report.  For every step with no record,
\* or a record with no checked item and empty notes, the step's block holds
\* the line "Status: No specific issues flagged." once and no "Flags
\* Identified:" or "Notes:" line.
EmptyStepReportsNoIssues ==
    \A index \in StepIndices :
        (CheckedOf(findings, index) = << >> /\ NotesOf(findings, index) = << >>) =>
            /\ Len(LinesOfKind(StepBlock(index), "Status: No specific issues flagged.")) = 1
            /\ Len(LinesOfKind(StepBlock(index), "Flags Identified:")) = 0
            /\ Len(LinesOfKind(StepBlock(index), " - [x] ")) = 0
            /\ Len(LinesOfKind(StepBlock(index), "Notes: ")) = 0

\* the summary view shows the report while a step holds a record left empty
\* by toggling an item on and off, and another step has no record
EmptyRecordReported ==
    /\ SummaryView
    /\ \E index \in DOMAIN findings :
          findings[index] = [checked |-> << >>, notes |-> << >>]
    /\ \E index \in StepIndices : index \notin DOMAIN findings

-----------------------------------------------------------------------------
(* Properties of the step list, the reset controls and the summary view *)

\* C11 as stated: after a click on a step-list entry, the active one
\* included, once the effects have been flushed the timer is stopped at the
\* step's full duration and the mobile menu is closed.
JumpAlwaysResets ==
    (lastEvent = "jump" /\ Settled) =>
        /\ timeLeft = Step(activeStep).duration
        /\ isTimerRunning = FALSE
        /\ mobileMenuOpen = FALSE

\* C11 as amended: a click on the entry of the step that is already active
\* sets activeStep to the value it holds, so no effect becomes due and
\* timeLeft, isTimerRunning and mobileMenuOpen keep their values; a click on
\* the entry of another step makes the step-change effect due.
JumpToActiveStepChangesNothing ==
    [][ HandlerStep("jump") =>
          IF activeStep' = activeStep
          THEN /\ Settled'
               /\ timeLeft' = timeLeft
               /\ isTimerRunning' = isTimerRunning
               /\ mobileMenuOpen' = mobileMenuOpen
          ELSE StepEffectDue' ]_vars

\* the active step's entry was clicked while its timer ran part-way down
\* with the mobile menu open: nothing was reset
JumpedToActiveStep ==
    /\ lastEvent = "jump"
    /\ Settled
    /\ isTimerRunning
    /\ timeLeft < Step(activeStep).duration
    /\ mobileMenuOpen

\* C12: the Reset control.  From any timer state on any step, Reset stops
\* the timer at the active step's duration, the effects that follow keep it
\* there, and activeStep, findings, reviewComplete and contractName are
\* left as they were.
ResetStopsAtFullDuration ==
    /\ [](lastEvent = "resetTimer" =>
            timeLeft = Step(activeStep).duration /\ isTimerRunning = FALSE)
    /\ [][ HandlerStep("resetTimer") =>
             UNCHANGED <<activeStep, findings, reviewComplete, contractName>> ]_vars

\* Reset was pressed on the 120-second step while its timer was running
\* part-way down, with findings and a contract name entered
ResetWhileRunning ==
    /\ lastEvent = "resetTimer"
    /\ activeStep = 1
    /\ timerDeps[1] = TRUE
    /\ timerDeps[2] < Step(activeStep).duration
    /\ findings # << >>
    /\ contractName # ""

\* C13: a declined Start New Review changes no session state.
DeclineChangesNothing ==
    [][ HandlerStep("declineNewReview") =>
          UNCHANGED <<activeStep, findings, contractName, reviewComplete,
                      isTimerRunning, timeLeft>> ]_vars

\* the confirmation was declined on a summary with findings, a contract
\* name and a running timer, all still there
NewReviewDeclined ==
    /\ lastEvent = "declineNewReview"
    /\ reviewComplete
    /\ findings # << >>
    /\ contractName # ""
    /\ isTimerRunning
    /\ timeLeft < Step(activeStep).duration

\* C14: Return to Review is a pure view toggle.  It sets reviewComplete to
\* false and leaves activeStep, findings, contractName, timeLeft and
\* isTimerRunning as they were at the click.
ReturnOnlyTogglesView ==
    [][ HandlerStep("returnToReview") =>
          /\ reviewComplete' = FALSE
          /\ UNCHANGED <<activeStep, findings, contractName, timeLeft,
                         isTimerRunning>> ]_vars

\* back in the step view from the summary, the timer still running part-way
\* down and the findings kept
ReturnedToReview ==
    /\ lastEvent = "returnToReview"
    /\ reviewComplete = FALSE
    /\ isTimerRunning
    /\ timeLeft < Step(activeStep).duration
    /\ findings # << >>

\* C15: findings records are never individually deleted.  Every step of the
\* session keeps the records that exist, except a confirmed Start New
\* Review, which leaves the map empty.
RecordsOnlyClearedTogether ==
    [][ \/ (DOMAIN findings) \subseteq (DOMAIN findings')
        \/ (HandlerStep("startNewReview") /\ findings' = << >>) ]_vars

\* a record whose checklist item was toggled off again is still there after
\* navigation to the last step, the summary view and ticks of the timer
EmptiedRecordSurvives ==
    /\ 0 \in DOMAIN findings
    /\ findings[0].checked = << >>
    /\ findings[0].notes = << >>
    /\ reviewComplete
    /\ lastEvent = "tick"

-----------------------------------------------------------------------------
(* Properties of the renders between a handler and its effects, and of the *)
(* interval                                                                *)

\* C16: the range of timeLeft.  In every committed render
\* 0 <= timeLeft <= steps[activeStep].duration.
TimeLeftWithinStepDuration ==
    /\ 0 <= timeLeft
    /\ timeLeft <= Step(activeStep).duration

\* C17: a single tick source.  At most one interval is scheduled in any
\* state, it is the one the last run of the timer effect created, and once
\* the effects are flushed it exists exactly while the timer runs with time
\* left.
AtMostOneInterval ==
    /\ scheduled \in {0, 1}
    /\ (scheduled = 1) = interval
    /\ (Settled => (interval = (isTimerRunning /\ timeLeft > 0)))

\* a tick was delivered and the timer effect, re-run for the new timeLeft,
\* cleared the interval of the previous run and created the next one
IntervalReplaced ==
    /\ Settled
    /\ lastEvent = "tick"
    /\ isTimerRunning
    /\ timeLeft < Step(activeStep).duration - 1
    /\ scheduled = 1

\* C18: no stale ticks.  Once the effects of a render are flushed no interval
\* is left unless the timer runs with time left, so after a Reset or a step
\* change timeLeft keeps the full duration until Start is toggled; and a
\* tick only ever decrements timeLeft, by 1, in a state where isTimerRunning
\* is true and timeLeft > 0.
NoStaleTicks ==
    /\ [](Settled /\ (~isTimerRunning \/ timeLeft = 0) => scheduled = 0)
    /\ [][ HandlerStep("tick") => isTimerRunning /\ timeLeft > 0 ]_vars
    /\ [][ (~isTimerRunning /\ ~isTimerRunning' /\ timeLeft' # timeLeft) =>
             (timeLeft' = Step(activeStep').duration /\ ~HandlerStep("tick")) ]_vars

\* the effects of a Reset pressed while the timer ran part-way down have
\* been flushed: the interval of the running timer is gone
ResetClearedInterval ==
    /\ Settled
    /\ lastEvent = "resetTimer"
    /\ timeLeft = Step(activeStep).duration
    /\ scheduled = 0
    /\ ticks = -1
    /\ timerDeps = <<FALSE, timeLeft>>
    /\ activeStep = 1

\* C19: the step-change ordering.  No committed render shows a newly active
\* step, whose step-change effect has yet to run, together with the old
\* step's timeLeft, a running timer or an open mobile menu.
StepRenderedAfterItsEffects ==
    StepEffectDue =>
        /\ timeLeft = Step(activeStep).duration
        /\ isTimerRunning = FALSE
        /\ mobileMenuOpen = FALSE

\* C20: a toggle at zero.  Start can be toggled while timeLeft = 0, but no
\* interval is scheduled for it: the timer effect stops the timer again,
\* leaving timeLeft = 0, activeStep and reviewComplete as they were.
ToggleAtZeroStopsAgain ==
    /\ []((lastEvent = "toggleTimer" /\ timeLeft = 0) =>
            (scheduled = 0 /\ (Settled => ~isTimerRunning)))
    /\ [][ (isTimerRunning /\ timeLeft = 0) =>
             /\ isTimerRunning' = FALSE
             /\ timeLeft' = 0
             /\ activeStep' = activeStep
             /\ reviewComplete' = reviewComplete ]_vars

\* Start was toggled with timeLeft = 0: the render shows a running timer at
\* zero and the timer effect is due
ToggledAtZero ==
    /\ lastEvent = "toggleTimer"
    /\ timeLeft = 0
    /\ isTimerRunning
    /\ TimerEffectDue

-----------------------------------------------------------------------------
(* Properties of the countdown left to run and of the summary view *)

\* C21: countdown liveness.  Whenever the timer runs with timeLeft > 0 and
\* the user leaves the timer controls, the steps and the session alone, fair
\* ticking brings the system to timeLeft = 0 with isTimerRunning false, and
\* it stays there.
CountdownRunsOut ==
    [](isTimerRunning /\ timeLeft > 0 => <>[](timeLeft = 0 /\ ~isTimerRunning))

\* the 120 s countdown of the second step ran out and stayed at zero while
\* the contract name was typed
RanOutAndStayed ==
    /\ Settled
    /\ activeStep = 1
    /\ timeLeft = 0
    /\ ~isTimerRunning
    /\ scheduled = 0
    /\ contractName # ""
    /\ lastEvent = "input"

\* C22: the summary view belongs to the last step.  reviewComplete implies
\* activeStep = 5 in every state; reviewComplete only becomes true by Next on
\* the last step and activeStep does not change while it is true; so a
\* confirmed Start New Review always moves activeStep from 5 to 0 and makes
\* the step-change effect due.
SummaryOnlyOnLastStep ==
    /\ [](reviewComplete => activeStep = Len(steps) - 1)
    /\ [][ (~reviewComplete /\ reviewComplete') =>
             (HandlerStep("handleNext") /\ activeStep = 5 /\ activeStep' = 5) ]_vars
    /\ [][ (reviewComplete /\ reviewComplete') => activeStep' = activeStep ]_vars
    /\ [][ HandlerStep("startNewReview") =>
             (activeStep = 5 /\ activeStep' = 0 /\ StepEffectDue') ]_vars

\* a confirmed Start New Review was pressed on a part-run countdown of the
\* last step: step 0 is rendered and the step-change effect is due
NewReviewLeavesLastStep ==
    /\ lastEvent = "startNewReview"
    /\ activeStep = 0
    /\ stepDeps = 5
    /\ StepEffectDue
    /\ timeLeft < Step(5).duration

\* C23: finishing the review does not stop the countdown.  Next leaves
\* timeLeft and isTimerRunning as they are; on the summary view a running
\* timer with time left keeps its interval, and every tick delivered there
\* lowers timeLeft by 1 and leaves the summary view up.
FinishKeepsCountdown ==
    /\ [][ HandlerStep("handleNext") => UNCHANGED <<timeLeft, isTimerRunning>> ]_vars
    /\ [](SummaryView /\ isTimerRunning /\ timeLeft > 0 => scheduled = 1)
    /\ [][ (HandlerStep("tick") /\ reviewComplete) =>
             (timeLeft' = timeLeft - 1 /\ reviewComplete') ]_vars

\* the countdown was still running when the review was finished and ran
\* down to zero on the summary view
RanDownInSummary ==
    /\ SummaryView
    /\ lastEvent = "tick"
    /\ timeLeft = 0
    /\ ~isTimerRunning

====
